---------------------------- MODULE Spec2Model ----------------------------
(***************************************************************************)
(* Model of the quaternion algebra (common/quaternion.py) and of the       *)
(* QuaterNet forward pass (common/quaternet.py).                           *)
(*                                                                         *)
(* Tensors are records [shape, data]: data is the row-major (contiguous)   *)
(* storage and shape the list of dimensions, as in torch.  Real numbers    *)
(* are restricted to the integer grid, on which every product and sum of   *)
(* the algebra is exact.                                                   *)
(***************************************************************************)
EXTENDS Integers, Sequences, FiniteSets, TLC

VARIABLES
    fn,      \* algebra: the function under call ("qmul", "qrot", "qeuler", "none")
    q,       \* algebra: the quaternion tensor argument
    r,       \* algebra: second argument (qmul: quaternions r, qrot: vectors v)
    order,   \* algebra: the order argument of qeuler
    ret,     \* algebra: outcome of the call (pending, a value, or an exception)
    model,   \* network: the QuaterNet module (configuration and parameters)
    data,    \* network: the caller's input tensor (batch, time, features)
    hcur,    \* network: the recurrent state the caller holds (None before any call)
    call,    \* network: the last forward call, its arguments and what it returned
    fresh,   \* network: the module and the data as they were before any call
    stream   \* network: the frames fed since the state was last reset

vars == <<fn, q, r, order, ret, model, data, hcur, call, fresh, stream>>
algVars == <<fn, q, r, order, ret>>
netVars == <<model, data, hcur, call, fresh, stream>>

-----------------------------------------------------------------------------
(* Bounds of the model.                                                    *)

MaxCoord == 1      \* algebra: components range over -MaxCoord..MaxCoord
MaxN == 2          \* algebra: quaternions per batch
MaxBatch == 2      \* network: batch size
MaxTime == 2       \* network: sequence length
MaxJoints == 2     \* network: num_joints
MaxOutputs == 1    \* network: num_outputs
MaxControls == 1   \* network: num_controls
MaxSeed == 1       \* network: parameter settings 0..MaxSeed
HiddenLevels == 3  \* network: values a hidden unit takes (0..HiddenLevels-1)
ControlUnits == 2  \* network: units of fc1 and of fc2 (30 in the source)

-----------------------------------------------------------------------------
(* Generic helpers.                                                        *)

RECURSIVE Prod(_)
Prod(s) == IF s = <<>> THEN 1 ELSE Head(s) * Prod(Tail(s))

RECURSIVE SumSeq(_)
SumSeq(s) == IF s = <<>> THEN 0 ELSE Head(s) + SumSeq(Tail(s))

SumSq(s) == SumSeq([i \in 1..Len(s) |-> s[i] * s[i]])

Last(s) == s[Len(s)]

Front(s) == SubSeq(s, 1, Len(s) - 1)

RECURSIVE Flatten(_)
Flatten(rows) == IF rows = <<>> THEN <<>> ELSE Head(rows) \o Flatten(Tail(rows))

Min(a, b) == IF a <= b THEN a ELSE b

Max(a, b) == IF a >= b THEN a ELSE b

\* Python's None
None == [none |-> TRUE]

-----------------------------------------------------------------------------
(* Tensors.                                                                *)

\* a function with domain 1..n as the tuple of its values, computed once
List(f) == f \o <<>>

Tensor(shape, d) == [shape |-> shape, data |-> List(d)]

Numel(t) == Prod(t.shape)

\* t.view(-1, w): the storage read as rows of width w
ViewRows(t, w) ==
    List([n \in 1..(Numel(t) \div w) |-> SubSeq(t.data, (n - 1) * w + 1, n * w)])

\* torch.stack(columns, dim = 1).view(shape): rows written back to storage
FromRows(rows, shape) == Tensor(shape, Flatten(rows))

\* Outcomes of a call
Returned(v) == [ok |-> TRUE, val |-> v]
Raised(e) == [ok |-> FALSE, err |-> e]
Pending == [ok |-> FALSE, err |-> "pending"]

-----------------------------------------------------------------------------
(* common/quaternion.py                                                    *)

\* row n, entry (i, j) of torch.bmm(r.view(-1, 4, 1), q.view(-1, 1, 4)),
\* indices from 0 as in the source
terms(rq, rr, i, j) == rr[i + 1] * rq[j + 1]

\* a transposed outer product: bmm(q.view(-1, 4, 1), r.view(-1, 1, 4))
qmul_row_transposed(rq, rr) ==
    LET t(i, j) == terms(rr, rq, i, j)
    IN  << t(0, 0) - t(1, 1) - t(2, 2) - t(3, 3),
           t(0, 1) + t(1, 0) - t(2, 3) + t(3, 2),
           t(0, 2) + t(1, 3) + t(2, 0) - t(3, 1),
           t(0, 3) - t(1, 2) + t(2, 1) + t(3, 0) >>

\* a slipped sign on terms[:, 1, 0] of x
qmul_row_sign(rq, rr) ==
    LET t(i, j) == terms(rq, rr, i, j)
    IN  << t(0, 0) - t(1, 1) - t(2, 2) - t(3, 3),
           t(0, 1) - t(1, 0) - t(2, 3) + t(3, 2),
           t(0, 2) + t(1, 3) + t(2, 0) - t(3, 1),
           t(0, 3) - t(1, 2) + t(2, 1) + t(3, 0) >>

\* w, x, y, z of one row of the batch
qmul_row(rq, rr) ==
    LET t(i, j) == terms(rq, rr, i, j)
    IN  << t(0, 0) - t(1, 1) - t(2, 2) - t(3, 3),
           t(0, 1) + t(1, 0) - t(2, 3) + t(3, 2),
           t(0, 2) + t(1, 3) + t(2, 0) - t(3, 1),
           t(0, 3) - t(1, 2) + t(2, 1) + t(3, 0) >>

qmul(tq, tr) ==
    IF Last(tq.shape) # 4 THEN Raised("AssertionError")
    ELSE IF Last(tr.shape) # 4 THEN Raised("AssertionError")
    ELSE LET original_shape == tq.shape
             rv == ViewRows(tr, 4)
             qv == ViewRows(tq, 4)
         IN  IF Len(rv) # Len(qv) THEN Raised("RuntimeError")   \* bmm: batch sizes differ
             ELSE Returned(FromRows([n \in 1..Len(qv) |-> qmul_row(qv[n], rv[n])],
                                    original_shape))

cross(a, b) ==
    << a[2] * b[3] - a[3] * b[2],
       a[3] * b[1] - a[1] * b[3],
       a[1] * b[2] - a[2] * b[1] >>

\* the factor 2 applied to the first cross product only
qrot_row_factor(rq, rv) ==
    LET qvec == SubSeq(rq, 2, 4)
        uv == cross(qvec, rv)
        uuv == cross(qvec, uv)
    IN  [i \in 1..3 |-> rv[i] + 2 * rq[1] * uv[i] + uuv[i]]

qrot_row(rq, rv) ==
    LET qvec == SubSeq(rq, 2, 4)
        uv == cross(qvec, rv)
        uuv == cross(qvec, uv)
    IN  [i \in 1..3 |-> rv[i] + 2 * (rq[1] * uv[i] + uuv[i])]

qrot(tq, tv) ==
    IF Last(tq.shape) # 4 THEN Raised("AssertionError")
    ELSE IF Last(tv.shape) # 3 THEN Raised("AssertionError")
    ELSE IF Front(tq.shape) # Front(tv.shape) THEN Raised("AssertionError")
    ELSE LET original_shape == tv.shape
             qv == ViewRows(tq, 4)
             vv == ViewRows(tv, 3)
         IN  Returned(FromRows([n \in 1..Len(vv) |-> qrot_row(qv[n], vv[n])],
                               original_shape))

\* The angles are kept as the calls that produce them, on exact arguments.
atan2(y, x) == [f |-> "atan2", y |-> y, x |-> x]
asin(a) == [f |-> "asin", y |-> a, x |-> 1]
clamp(a, lo, hi) == Max(lo, Min(a, hi))

euler_xyz(q0, q1, q2, q3, epsilon) ==
    << atan2(2 * (q0*q1 - q2*q3), 1 - 2 * (q1*q1 + q2*q2)),
       asin(clamp(2 * (q1*q3 + q0*q2), -1 + epsilon, 1 - epsilon)),
       atan2(2 * (q0*q3 - q1*q2), 1 - 2 * (q2*q2 + q3*q3)) >>

euler_yzx(q0, q1, q2, q3, epsilon) ==
    << atan2(2 * (q0*q1 - q2*q3), 1 - 2 * (q1*q1 + q3*q3)),
       atan2(2 * (q0*q2 - q1*q3), 1 - 2 * (q2*q2 + q3*q3)),
       asin(clamp(2 * (q1*q2 + q0*q3), -1 + epsilon, 1 - epsilon)) >>

euler_zxy(q0, q1, q2, q3, epsilon) ==
    << asin(clamp(2 * (q0*q1 + q2*q3), -1 + epsilon, 1 - epsilon)),
       atan2(2 * (q0*q2 - q1*q3), 1 - 2 * (q1*q1 + q2*q2)),
       atan2(2 * (q0*q3 - q1*q2), 1 - 2 * (q1*q1 + q3*q3)) >>

euler_xzy(q0, q1, q2, q3, epsilon) ==
    << atan2(2 * (q0*q1 + q2*q3), 1 - 2 * (q1*q1 + q3*q3)),
       atan2(2 * (q0*q2 + q1*q3), 1 - 2 * (q2*q2 + q3*q3)),
       asin(clamp(2 * (q0*q3 - q1*q2), -1 + epsilon, 1 - epsilon)) >>

euler_yxz(q0, q1, q2, q3, epsilon) ==
    << asin(clamp(2 * (q0*q1 - q2*q3), -1 + epsilon, 1 - epsilon)),
       atan2(2 * (q1*q3 + q0*q2), 1 - 2 * (q1*q1 + q2*q2)),
       atan2(2 * (q1*q2 + q0*q3), 1 - 2 * (q1*q1 + q3*q3)) >>

euler_zyx(q0, q1, q2, q3, epsilon) ==
    << atan2(2 * (q0*q1 + q2*q3), 1 - 2 * (q1*q1 + q2*q2)),
       asin(clamp(2 * (q0*q2 - q1*q3), -1 + epsilon, 1 - epsilon)),
       atan2(2 * (q0*q3 + q1*q2), 1 - 2 * (q2*q2 + q3*q3)) >>

\* an else branch that falls back to the first order instead of raising
qeuler_default(tq, ord, epsilon) ==
    IF Last(tq.shape) # 4 THEN Raised("AssertionError")
    ELSE LET original_shape == Front(tq.shape) \o <<3>>
             qv == ViewRows(tq, 4)
             E(n, F(_, _, _, _, _)) == F(qv[n][1], qv[n][2], qv[n][3], qv[n][4], epsilon)
             Out(F(_, _, _, _, _)) ==
                 Returned(FromRows([n \in 1..Len(qv) |-> E(n, F)], original_shape))
         IN  CASE ord = "xyz" -> Out(euler_xyz)
               [] ord = "yzx" -> Out(euler_yzx)
               [] ord = "zxy" -> Out(euler_zxy)
               [] ord = "xzy" -> Out(euler_xzy)
               [] ord = "yxz" -> Out(euler_yxz)
               [] ord = "zyx" -> Out(euler_zyx)
               [] OTHER -> Out(euler_xyz)

qeuler(tq, ord, epsilon) ==
    IF Last(tq.shape) # 4 THEN Raised("AssertionError")
    ELSE LET original_shape == Front(tq.shape) \o <<3>>
             qv == ViewRows(tq, 4)
             E(n, F(_, _, _, _, _)) == F(qv[n][1], qv[n][2], qv[n][3], qv[n][4], epsilon)
             Out(F(_, _, _, _, _)) ==
                 Returned(FromRows([n \in 1..Len(qv) |-> E(n, F)], original_shape))
         IN  CASE ord = "xyz" -> Out(euler_xyz)
               [] ord = "yzx" -> Out(euler_yzx)
               [] ord = "zxy" -> Out(euler_zxy)
               [] ord = "xzy" -> Out(euler_xzy)
               [] ord = "yxz" -> Out(euler_yxz)
               [] ord = "zyx" -> Out(euler_zyx)
               [] OTHER -> Raised("RuntimeError")   \* a bare raise

-----------------------------------------------------------------------------
(* Tensors of rank 3, indexed from 1: (batch, time, feature).              *)

At3(t, b, k, c) == t.data[((b - 1) * t.shape[2] + (k - 1)) * t.shape[3] + c]

Build3(B, T, F, Op(_, _, _)) ==
    Tensor(<<B, T, F>>,
           [i \in 1..(B * T * F) |->
               Op(((i - 1) \div (T * F)) + 1, (((i - 1) \div F) % T) + 1, ((i - 1) % F) + 1)])

\* t[:, :, lo-1:hi]
SliceFeat(t, lo, hi) ==
    Build3(t.shape[1], t.shape[2], hi - lo + 1, LAMBDA b, k, c : At3(t, b, k, c + lo - 1))

\* t[:, lo-1:hi]
SliceTime(t, lo, hi) ==
    Build3(t.shape[1], hi - lo + 1, t.shape[3], LAMBDA b, k, c : At3(t, b, k + lo - 1, c))

\* torch.cat((a, b), dim = 2)
Cat2(a, b) ==
    Build3(a.shape[1], a.shape[2], a.shape[3] + b.shape[3],
           LAMBDA b1, k, c : IF c <= a.shape[3] THEN At3(a, b1, k, c)
                             ELSE At3(b, b1, k, c - a.shape[3]))

\* the feature vector of batch element b at time k
Frame(t, b, k) == List([c \in 1..t.shape[3] |-> At3(t, b, k, c)])

-----------------------------------------------------------------------------
(* common/quaternet.py: the layers.                                        *)
(*                                                                         *)
(* torch's layers are library code with learned weights.  Each is modelled *)
(* as the deterministic map it is, on the integer grid: a Linear layer     *)
(* whose weight matrix has one value in every entry, a GRU cell with one   *)
(* hidden unit per layer (h_size = 1) taking HiddenLevels values, fc1 and  *)
(* fc2 with ControlUnits units each, the weights fixed by the seed the     *)
(* module was built under.                                                 *)

rnn_layers == 2
fc1_size == ControlUnits
fc2_size == ControlUnits
slope_den == 20    \* LeakyReLU(0.05): negative_slope = 1 / slope_den

\* nn.Linear with weight w in every entry and bias(k) on output k
Linear(w, bias(_), x, n) == LET s == SumSeq(x) IN List([k \in 1..n |-> w * s + bias(k)])

\* nn.LeakyReLU(0.05) in units of 1 / slope_den: y if y >= 0, 0.05 * y otherwise
LeakyReLU(x) == List([k \in 1..Len(x) |-> IF x[k] >= 0 THEN slope_den * x[k] ELSE x[k]])

\* self.relu(self.fc2(self.relu(self.fc1(controls)))), in units of 1 / slope_den^2;
\* the biases are scaled with the units of their layer's input
control_features(self, controls) ==
    LET a1 == LeakyReLU(Linear(self.seed + 1, LAMBDA k : (k % 3) - 1, controls, fc1_size))
        a2 == LeakyReLU(Linear(1, LAMBDA k : slope_den * ((k % 2) - self.seed), a1, fc2_size))
    IN  a2

\* one step of one GRU layer: the new hidden value from the input and the old one
GRUCell(self, layer, inp, h) ==
    (layer * SumSeq(inp) + (self.seed + 1) * h + self.seed + layer) % HiddenLevels

\* one time step of the stacked layers: hs[l] is layer l's hidden value; layer 1
\* reads the frame, layer l + 1 reads layer l's new value
RECURSIVE GRUStep(_, _, _, _)
GRUStep(self, layer, inp, hs) ==
    IF layer > rnn_layers THEN <<>>
    ELSE LET hl == GRUCell(self, layer, inp, hs[layer])
         IN  <<hl>> \o GRUStep(self, layer + 1, <<hl>>, hs)

\* the layers run over the frames of one batch element: the top layer's value
\* after each frame, and the hidden values after the last one
RECURSIVE GRUSeq(_, _, _)
GRUSeq(self, frames, hs) ==
    IF frames = <<>> THEN [out |-> <<>>, h |-> hs]
    ELSE LET h1 == GRUStep(self, 1, Head(frames), hs)
             rest == GRUSeq(self, Tail(frames), h1)
         IN  [out |-> <<h1[rnn_layers]>> \o rest.out, h |-> rest.h]

\* hidden states are tensors (rnn_layers, batch, 1)
HAt(h, l, b) == h.data[(l - 1) * h.shape[2] + b]

\* self.rnn(x, h) with batch_first = True: (output, h_n)
rnn(self, x, h) ==
    LET B == x.shape[1]
        T == x.shape[2]
        run == List([b \in 1..B |->
                        GRUSeq(self, List([k \in 1..T |-> Frame(x, b, k)]),
                               List([l \in 1..rnn_layers |-> HAt(h, l, b)]))])
    IN  << Build3(B, T, 1, LAMBDA b, k, c : run[b].out[k]),
           Tensor(<<rnn_layers, B, 1>>,
                  [i \in 1..(rnn_layers * B) |->
                      run[((i - 1) % B) + 1].h[((i - 1) \div B) + 1]]) >>

\* self.fc: Linear(h_size, 4 * num_joints + num_outputs) on every frame
fc(self, x) ==
    LET n == 4 * self.num_joints + self.num_outputs
    IN  Build3(x.shape[1], x.shape[2], n,
               LAMBDA b, k, c : (((self.seed + c) % 3) - 1) * At3(x, b, k, 1)
                                + ((self.seed * c) % 3) - (self.seed % 2))

\* QuaterNet(num_joints, num_outputs, num_controls, model_velocities), built
\* under a seed: h0 is the learned initial state, (rnn_layers, 1, 1)
QuaterNet(num_joints, num_outputs, num_controls, model_velocities, seed) ==
    [ num_joints |-> num_joints,
      num_outputs |-> num_outputs,
      num_controls |-> num_controls,
      model_velocities |-> model_velocities,
      seed |-> seed,
      h0 |-> Tensor(<<rnn_layers, 1, 1>>,
                    [l \in 1..rnn_layers |-> (seed + l) % HiddenLevels]) ]

-----------------------------------------------------------------------------
(* common/quaternet.py: QuaterNet.forward.                                 *)

\* t.view(shape)
View(t, shape) == Tensor(shape, t.data)

\* lines 111-115: the controls go through fc1, fc2 and the activations, and
\* replace the tail of every frame; without controls x is passed on as it is
control_block(self, x) ==
    LET nq == 4 * self.num_joints + self.num_outputs
    IN  IF self.num_controls > 0
        THEN LET controls == SliceFeat(x, nq + 1, x.shape[3])
                 feats == List([b \in 1..x.shape[1] |->
                              List([k \in 1..x.shape[2] |->
                                  control_features(self, Frame(controls, b, k))])])
             IN  Cat2(SliceFeat(x, 1, nq),
                      Build3(x.shape[1], x.shape[2], fc2_size,
                             LAMBDA b, k, c : feats[b][k][c]))
        ELSE x

\* self.h0.expand(-1, batch, -1).contiguous()
expand_h0(self, batch) ==
    Tensor(<<rnn_layers, batch, 1>>,
           [i \in 1..(rnn_layers * batch) |-> HAt(self.h0, ((i - 1) \div batch) + 1, 1)])

\* a state supplied by the caller that is dropped for the learned one
initial_state_reset(self, h, batch) == expand_h0(self, batch)

\* lines 119-120: the state the recurrent core starts from
initial_state(self, h, batch) == IF h = None THEN expand_h0(self, batch) ELSE h

\* every frame kept whatever return_all says
output_frames_all(t, return_all) == t

\* lines 125-129: all frames, or the last one only (t[:, -1:])
output_frames(t, return_all) ==
    IF return_all THEN t ELSE SliceTime(t, t.shape[2], t.shape[2])

\* the operands of the composition exchanged: qmul(x_orig, normalized)
residual_swapped(self, normalized, x_orig) ==
    IF self.model_velocities
    THEN qmul(View(SliceFeat(x_orig, 1, 4 * self.num_joints),
                   <<Numel(normalized) \div 4, 4>>),
              normalized)
    ELSE Returned(normalized)

\* lines 136-137: in velocity mode every projected quaternion is multiplied
\* with the input quaternion of its frame and joint
residual(self, normalized, x_orig) ==
    IF self.model_velocities
    THEN qmul(normalized,
              View(SliceFeat(x_orig, 1, 4 * self.num_joints),
                   <<Numel(normalized) \div 4, 4>>))
    ELSE Returned(normalized)

\* A number n / sqrt(d2): what a division by an L2 norm yields on the integer
\* grid.  Whole numbers have d2 = 1.
Num(n) == [n |-> n, d2 |-> 1]

\* a row passed on without the division
normalize_row_none(row) == [i \in 1..Len(row) |-> Num(row[i])]

\* F.normalize on one row: row / max(norm(row), eps), eps = 1e-12.  On the
\* integer grid norm(row) < eps exactly when the row is zero, and then the
\* quotient 0 / eps is the zero row.
normalize_row(row) ==
    LET s == SumSq(row)
    IN  IF s = 0 THEN [i \in 1..Len(row) |-> Num(0)]
        ELSE [i \in 1..Len(row) |-> [n |-> row[i], d2 |-> s]]

\* F.normalize(t, dim = 1) of a tensor (N, 4)
normalize(t) ==
    Tensor(t.shape, Flatten([n \in 1..t.shape[1] |-> normalize_row(ViewRows(t, 4)[n])]))

\* lines 144-147: the rotations joined with the other outputs, which are whole
output_block(self, normalized, x) ==
    IF self.num_outputs > 0
    THEN Cat2(normalized,
              LET aux == SliceFeat(x, 4 * self.num_joints + 1, x.shape[3])
              IN  Tensor(aux.shape, [i \in 1..Len(aux.data) |-> Num(aux.data[i])]))
    ELSE normalized

\* the projection overwritten with the composition computed from it
pre_normalized_written(pre_normalized, composed, normalized) ==
    View(composed, pre_normalized.shape)

\* lines 132-141, 152: what pre_normalized holds when it is returned.
\* normalized starts as a view of its storage (line 133), but qmul stacks its
\* result into a new tensor (line 137) and F.normalize returns a new tensor
\* (line 141): both rebind normalized, and nothing writes through the view.
pre_normalized_kept(pre_normalized, composed, normalized) == pre_normalized

\* forward returns the tuple (x, h) or (x, h, pre_normalized), or raises
forward(self, x, h, return_prenorm, return_all) ==
    IF Len(x.shape) # 3 THEN Raised("AssertionError")
    ELSE IF x.shape[3] # 4 * self.num_joints + self.num_outputs + self.num_controls
    THEN Raised("AssertionError")
    ELSE LET x_in == control_block(self, x)
             h_in == initial_state(self, h, x_in.shape[1])
             rnn_out == rnn(self, x_in, h_in)
             x_fc == fc(self, output_frames(rnn_out[1], return_all))
             x_orig == output_frames(x, return_all)
             pre_normalized == SliceFeat(x_fc, 1, 4 * self.num_joints)
             composed == residual(self,
                                  View(pre_normalized, <<Numel(pre_normalized) \div 4, 4>>),
                                  x_orig)
         IN  IF ~composed.ok THEN composed
             ELSE LET normalized == View(normalize(composed.val), pre_normalized.shape)
                      x_out == output_block(self, normalized, x_fc)
                  IN  IF return_prenorm
                      THEN Returned(<<x_out, rnn_out[2],
                                      pre_normalized_kept(pre_normalized,
                                                          composed.val, normalized)>>)
                      ELSE Returned(<<x_out, rnn_out[2]>>)

\* a module that keeps the state it returned as its initial state
forward_effect_retaining(self, x, h, h_new) ==
    [ self |-> [self EXCEPT !.h0 = Tensor(<<rnn_layers, 1, 1>>,
                                         [l \in 1..rnn_layers |-> HAt(h_new, l, 1)])],
      x |-> x,
      h |-> h ]

\* What a call leaves in the objects it was given.  forward only rebinds its
\* locals to new tensors (fc1 returns a new tensor, which the in-place
\* activation then writes; expand(...).contiguous() copies h0; the GRU returns
\* a new state) and assigns no attribute of self.
forward_effect(self, x, h, h_new) == [self |-> self, x |-> x, h |-> h]

-----------------------------------------------------------------------------
(* Inputs of the algebra.                                                  *)

Quats(m) == [1..4 -> -m..m]
Vecs(m) == [1..3 -> -m..m]
UnitQuats == {a \in Quats(1) : SumSq(a) = 1}
identity == <<1, 0, 0, 0>>

\* A storage of n numbers filled from the components of a; with rows of width
\* Len(a), row k holds a shifted k-1 places
Fill(a, n) == [i \in 1..n |-> a[((i - 1 + (i - 1) \div Len(a)) % Len(a)) + 1]]

Filled(shape, a) == Tensor(shape, Fill(a, Prod(shape)))

\* leading shapes of rank 0..2 holding at most MaxN entries
Leads ==
    {<<>>} \cup {<<n>> : n \in 1..MaxN}
           \cup {l \in (1..MaxN) \X (1..MaxN) : l[1] * l[2] <= MaxN}

Shapes == {l \o <<w>> : l \in Leads, w \in 2..4}

Orders == {"xyz", "yzx", "zxy", "xzy", "yxz", "zyx"}
OtherOrders == {"", "XYZ", "zyz", "xy", "euler"}

NoTensor == Tensor(<<0>>, <<>>)

-----------------------------------------------------------------------------
(* The network's variables while the algebra is exercised, and back.       *)

NetIdle ==
    /\ model = None
    /\ data = NoTensor
    /\ hcur = None
    /\ call = None
    /\ fresh = None
    /\ stream = None

AlgIdle ==
    /\ fn = "none"
    /\ q = NoTensor
    /\ r = NoTensor
    /\ order = ""
    /\ ret = Pending

-----------------------------------------------------------------------------
(* Calls of the algebra: the arguments are drawn, then the function runs.  *)

InitQmulValues ==
    /\ fn = "qmul"
    /\ \E a \in Quats(MaxCoord), b \in Quats(1) :
          /\ q = Filled(<<1, 4>>, a)
          /\ r = Filled(<<1, 4>>, b)
    /\ order = ""

InitQmulShapes ==
    /\ fn = "qmul"
    /\ \E a \in UnitQuats, b \in UnitQuats, sq \in Shapes, sr \in Shapes :
          /\ q = Filled(sq, a)
          /\ r = Filled(sr, b)
    /\ order = ""

InitQrot ==
    /\ fn = "qrot"
    /\ \E a \in Quats(1), w \in Vecs(MaxCoord), n \in 1..MaxN :
          /\ q = Filled(<<n, 4>>, a)
          /\ r = Filled(<<n, 3>>, w)
    /\ order = ""

InitQeuler ==
    /\ fn = "qeuler"
    /\ \E a \in Quats(MaxCoord), n \in 1..MaxN : q = Filled(<<n, 4>>, a)
    /\ r = NoTensor
    /\ order \in Orders \cup OtherOrders

InitAlgebra ==
    /\ \/ InitQmulValues
       \/ InitQmulShapes
       \/ InitQrot
       \/ InitQeuler
    /\ ret = Pending
    /\ NetIdle

CallQmul ==
    /\ fn = "qmul"
    /\ ret = Pending
    /\ ret' = qmul(q, r)
    /\ UNCHANGED <<fn, q, r, order>>
    /\ UNCHANGED netVars

CallQrot ==
    /\ fn = "qrot"
    /\ ret = Pending
    /\ ret' = qrot(q, r)
    /\ UNCHANGED <<fn, q, r, order>>
    /\ UNCHANGED netVars

CallQeuler ==
    /\ fn = "qeuler"
    /\ ret = Pending
    /\ ret' = qeuler(q, order, 0)
    /\ UNCHANGED <<fn, q, r, order>>
    /\ UNCHANGED netVars

NextAlgebra == CallQmul \/ CallQrot \/ CallQeuler

SpecAlgebra == InitAlgebra /\ [][NextAlgebra]_vars

-----------------------------------------------------------------------------
(* Calls of the network.  A module is built and the caller holds a batch   *)
(* of frame sequences; it then calls forward on chunks data[:, lo-1:hi],   *)
(* with no state or with the state the previous call returned.             *)

\* Quaternions of the motion data, not all of unit length, one of them zero
CorpusQuats ==
    << <<1, 0, 0, 0>>, <<0, 1, 0, 0>>, <<0, 0, 0, 0>>, <<1, -1, 0, 1>>, <<0, 0, -1, 1>> >>

\* channel c of frame k of the data: the joints' quaternions, then the other
\* outputs and the controls
CorpusValue(k, c, nrot) ==
    IF c <= nrot
    THEN CorpusQuats[((k + ((c - 1) \div 4)) % Len(CorpusQuats)) + 1][((c - 1) % 4) + 1]
    ELSE ((k + c) % 3) - 1

NoStream == [lo |-> 0, hi |-> 0]

Init ==
    /\ \E J \in 1..MaxJoints, O \in 0..MaxOutputs, C \in 0..MaxControls,
          vel \in BOOLEAN, seed \in 0..MaxSeed :
          model = QuaterNet(J, O, C, vel, seed)
    /\ \E B \in 1..MaxBatch, T \in 1..MaxTime :
          data = Build3(B, T,
                        4 * model.num_joints + model.num_outputs + model.num_controls,
                        LAMBDA b, k, c :
                            CorpusValue(MaxTime * (b - 1) + (k - 1), c,
                                        4 * model.num_joints))
    /\ hcur = None
    /\ call = None
    /\ fresh = [model |-> model, data |-> data]
    /\ stream = NoStream
    /\ AlgIdle

\* data with its frames lo..hi overwritten by those of x
PutTime(t, lo, hi, x) ==
    Build3(t.shape[1], t.shape[2], t.shape[3],
           LAMBDA b, k, c : IF lo <= k /\ k <= hi THEN At3(x, b, k - lo + 1, c)
                            ELSE At3(t, b, k, c))

\* model(data[:, lo-1:hi], h, return_prenorm, return_all).  The caller starts
\* anew on any chunk with h absent, or goes on with the chunk that follows the
\* last one, passing the state that call returned; it keeps the state returned.
Forward(lo, hi, carry, return_prenorm, return_all) ==
    /\ IF call = None THEN TRUE ELSE call.ret.ok
    /\ carry => hcur # None /\ lo = stream.hi + 1
    /\ \E x \in {SliceTime(data, lo, hi)}, h \in {IF carry THEN hcur ELSE None} :
       \E res \in {forward(model, x, h, return_prenorm, return_all)} :
       \E eff \in {forward_effect(model, x, h, IF res.ok THEN res.val[2] ELSE None)} :
           /\ call' = [ lo |-> lo, hi |-> hi, x |-> x, h |-> h,
                        return_prenorm |-> return_prenorm, return_all |-> return_all,
                        ret |-> res, h_after |-> eff.h ]
           /\ model' = eff.self
           /\ data' = PutTime(data, lo, hi, eff.x)
           /\ hcur' = IF res.ok THEN res.val[2] ELSE hcur
           /\ stream' = [lo |-> IF carry THEN stream.lo ELSE lo, hi |-> hi]
    /\ UNCHANGED fresh
    /\ UNCHANGED algVars

Next ==
    \E lo \in 1..data.shape[2], hi \in 1..data.shape[2], carry \in BOOLEAN,
       return_prenorm \in BOOLEAN, return_all \in BOOLEAN :
        /\ lo <= hi
        /\ Forward(lo, hi, carry, return_prenorm, return_all)

Spec == Init /\ [][Next]_vars

-----------------------------------------------------------------------------
(* Claims about the algebra.                                               *)

\* The product of two basis elements 1, i, j, k (numbered 1..4): <<sign, element>>
BasisMul(s, t) ==
    CASE s = 1 -> <<1, t>>
      [] t = 1 -> <<1, s>>
      [] s = t -> <<-1, 1>>
      [] s = 2 /\ t = 3 -> <<1, 4>>
      [] s = 3 /\ t = 4 -> <<1, 2>>
      [] s = 4 /\ t = 2 -> <<1, 3>>
      [] s = 3 /\ t = 2 -> <<-1, 4>>
      [] s = 4 /\ t = 3 -> <<-1, 2>>
      [] s = 2 /\ t = 4 -> <<-1, 3>>

\* Reference Hamilton product a * b, a the left operand: the bilinear extension
\* of the basis products
Hamilton(a, b) ==
    [m \in 1..4 |->
        SumSeq([p \in 1..16 |->
            LET s == ((p - 1) \div 4) + 1
                t == ((p - 1) % 4) + 1
                e == BasisMul(s, t)
            IN  IF e[2] = m THEN e[1] * a[s] * b[t] ELSE 0])]

QmulReturned == fn = "qmul" /\ ret.ok

\* C1 as stated: every row of qmul(q, r) is the Hamilton product r * q, r the
\* left operand and q the right one.
C1_ProductRLeft ==
    QmulReturned =>
        /\ ret.val.shape = q.shape
        /\ \A n \in 1..(Numel(q) \div 4) :
              ViewRows(ret.val, 4)[n] = Hamilton(ViewRows(r, 4)[n], ViewRows(q, 4)[n])

\* C1 amended: every row of qmul(q, r) is the Hamilton product q * r, q the left
\* operand and r the right one, in the shape of q.
C1_ProductQLeft ==
    QmulReturned =>
        /\ ret.val.shape = q.shape
        /\ \A n \in 1..(Numel(q) \div 4) :
              ViewRows(ret.val, 4)[n] = Hamilton(ViewRows(q, 4)[n], ViewRows(r, 4)[n])

\* C1 witness: a product of two quaternions that do not commute was returned.
C1_Witness ==
    /\ QmulReturned
    /\ \E n \in 1..(Numel(q) \div 4) :
          Hamilton(ViewRows(q, 4)[n], ViewRows(r, 4)[n])
              # Hamilton(ViewRows(r, 4)[n], ViewRows(q, 4)[n])

\* C3: (1,0,0,0) is a two-sided identity of qmul: a row of r that is the identity
\* leaves the row of q, and a row of q that is the identity leaves the row of r.
C3_Identity ==
    QmulReturned =>
        \A n \in 1..(Numel(q) \div 4) :
            /\ ViewRows(r, 4)[n] = identity => ViewRows(ret.val, 4)[n] = ViewRows(q, 4)[n]
            /\ ViewRows(q, 4)[n] = identity => ViewRows(ret.val, 4)[n] = ViewRows(r, 4)[n]

\* C3 witness: qmul has returned for an identity operand and another operand
\* that has an x component.
C3_Witness ==
    /\ QmulReturned
    /\ ViewRows(q, 4)[1] = identity
    /\ ViewRows(r, 4)[1][2] # 0

\* C6 as stated: qmul on operands whose shapes differ, or whose trailing
\* dimension is not 4, fails and returns no product.
C6_MismatchFails ==
    (/\ fn = "qmul"
     /\ ret # Pending
     /\ \/ q.shape # r.shape
        \/ Last(q.shape) # 4
        \/ Last(r.shape) # 4)
    => ~ret.ok

\* C7: qeuler returns a result exactly for the six recognized orders and raises
\* for every other order.
C7_OrderChecked ==
    (fn = "qeuler" /\ ret # Pending) =>
        /\ order \in Orders => ret.ok /\ ret.val.shape = Front(q.shape) \o <<3>>
        /\ order \notin Orders => ~ret.ok

\* C7 witness: qeuler has raised on an order that is not recognized.
C7_Witness ==
    /\ fn = "qeuler"
    /\ order \notin Orders
    /\ ret = Raised("RuntimeError")

\* C9: for a unit quaternion row, qrot returns a vector of the same squared
\* length as the vector it was given.
C9_NormKept ==
    (fn = "qrot" /\ ret.ok) =>
        \A n \in 1..(Numel(q) \div 4) :
            SumSq(ViewRows(q, 4)[n]) = 1 =>
                SumSq(ViewRows(ret.val, 3)[n]) = SumSq(ViewRows(r, 3)[n])

\* C9 witness: qrot has turned a vector by a unit quaternion into another vector.
C9_Witness ==
    /\ fn = "qrot"
    /\ ret.ok
    /\ SumSq(ViewRows(q, 4)[1]) = 1
    /\ ViewRows(ret.val, 3)[1] # ViewRows(r, 3)[1]

-----------------------------------------------------------------------------
(* Claims about the network.                                               *)

Called == IF call = None THEN FALSE ELSE call.ret.ok

NRot == 4 * model.num_joints

\* frames the last call returned
OutTime == IF call.return_all THEN call.hi - call.lo + 1 ELSE 1

\* the numbers of quaternion j of batch element b at frame k of a tensor
Quat(t, b, k, j) == [i \in 1..4 |-> At3(t, b, k, 4 * (j - 1) + i)]

\* a quaternion of numbers n / sqrt(d2) has L2 norm 1
IsUnit(qq) ==
    /\ \A i \in 1..4 : qq[i].d2 = qq[1].d2
    /\ SumSq([i \in 1..4 |-> qq[i].n]) = qq[1].d2

IsZero(qq) == \A i \in 1..4 : qq[i].n = 0

\* the rotation quaternions of the output of the last call
OutQuats ==
    { Quat(call.ret.val[1], b, k, j) :
        b \in 1..call.x.shape[1], k \in 1..OutTime, j \in 1..model.num_joints }

\* C2 as stated: every rotation quaternion forward returns has unit norm, also
\* one whose value before the normalization is the zero vector.
C2_AllUnit == Called => \A qq \in OutQuats : IsUnit(qq)

\* C2 amended: every rotation quaternion forward returns has unit norm unless its
\* value before the normalization is the zero vector, and then it is returned
\* as the zero vector.
C2_UnitUnlessZero ==
    Called => \A qq \in OutQuats : IF IsZero(qq) THEN \A i \in 1..4 : qq[i].d2 = 1
                                   ELSE IsUnit(qq)

\* C2 witness: one output holds a zero quaternion and a quaternion that the
\* normalization has scaled.
C2_Witness ==
    /\ Called
    /\ \E qq \in OutQuats : IsZero(qq)
    /\ \E qq \in OutQuats : IsUnit(qq) /\ qq[1].d2 > 1

\* the input frame that output frame k is composed with
InTime(k) == IF call.return_all THEN k ELSE call.hi - call.lo + 1

\* C4: in velocity mode every output rotation, before the normalization, is the
\* Hamilton product of the projected quaternion (left) with the input quaternion
\* (right) of the same batch element and joint, at the same frame under
\* return_all and at the last input frame otherwise; in absolute mode it is the
\* projected quaternion itself.
C4_Composition ==
    (Called /\ call.return_prenorm) =>
        \A b \in 1..call.x.shape[1], k \in 1..OutTime, j \in 1..model.num_joints :
            LET out == Quat(call.ret.val[1], b, k, j)
                pre == Quat(call.ret.val[3], b, k, j)
                inq == Quat(call.x, b, InTime(k), j)
            IN  [i \in 1..4 |-> out[i].n] =
                    IF model.model_velocities THEN Hamilton(pre, inq) ELSE pre

\* C4 witness: a velocity-mode call on two frames returned its last frame only,
\* and one projected quaternion does not commute with its input quaternion.
C4_Witness ==
    /\ Called
    /\ call.return_prenorm
    /\ ~call.return_all
    /\ model.model_velocities
    /\ call.hi > call.lo
    /\ \E b \in 1..call.x.shape[1], j \in 1..model.num_joints :
          Hamilton(Quat(call.ret.val[3], b, 1, j), Quat(call.x, b, InTime(1), j))
              # Hamilton(Quat(call.x, b, InTime(1), j), Quat(call.ret.val[3], b, 1, j))

LastFrame(t) == SliceTime(t, t.shape[2], t.shape[2])

\* C10: the state and the last output frame of a call equal those of one call,
\* with h absent, on all the frames fed since h was last absent; and a call with
\* h absent starts every batch element from the learned initial state.
C10_Chunks ==
    Called =>
        LET whole == forward(model, SliceTime(data, stream.lo, stream.hi), None,
                             FALSE, FALSE)
        IN  /\ call.ret.val[2] = whole.val[2]
            /\ LastFrame(call.ret.val[1]) = whole.val[1]
            /\ call.h = None =>
                  \A b \in 1..call.x.shape[1] :
                      [l \in 1..rnn_layers |-> HAt(call.ret.val[2], l, b)] =
                          GRUSeq(model,
                                 [k \in 1..call.x.shape[2] |->
                                     Frame(control_block(model, call.x), b, k)],
                                 [l \in 1..rnn_layers |-> HAt(model.h0, l, 1)]).h

\* C10 witness: the second chunk of a sequence was fed with the state returned
\* for the first.
C10_Witness ==
    /\ Called
    /\ call.h # None
    /\ stream.lo < call.lo
    /\ call.x.shape[1] > 1

\* the rotation block of the linear projection for the last call, computed
\* from the recurrent core's output alone
Projected(self) ==
    SliceFeat(fc(self,
                 output_frames(rnn(self, control_block(self, call.x),
                                   initial_state(self, call.h, call.x.shape[1]))[1],
                               call.return_all)),
              1, 4 * self.num_joints)

=============================================================================
